---------------------------- MODULE Spec2Model ----------------------------
(***************************************************************************)
(* Currency-Converter-App backend: the conversion Lambda (app.py) and the  *)
(* rate-insert Lambda (test_db_connection.py) over the DynamoDB Rates      *)
(* table.                                                                  *)
(*                                                                         *)
(* Strings are sequences of one-character strings, so that upper() and     *)
(* len() are computed.  A Decimal is a record [kind, sign, coef, exp]      *)
(* whose coefficient is a sequence of decimal digits, most significant     *)
(* first, so that the 28-digit context of Python's decimal module is kept  *)
(* at its real width.                                                      *)
(***************************************************************************)
EXTENDS Integers, Sequences, FiniteSets, TLC

(***************************************************************************)
(* Strings                                                                 *)
(***************************************************************************)
\* str.upper() on one character
UpperCh(c) ==
    CASE c = "a" -> "A" [] c = "b" -> "B" [] c = "c" -> "C" [] c = "d" -> "D" [] c = "e" -> "E" [] c = "f" -> "F"
      [] c = "g" -> "G" [] c = "h" -> "H" [] c = "i" -> "I" [] c = "j" -> "J" [] c = "k" -> "K" [] c = "l" -> "L"
      [] c = "m" -> "M" [] c = "n" -> "N" [] c = "o" -> "O" [] c = "p" -> "P" [] c = "q" -> "Q" [] c = "r" -> "R"
      [] c = "s" -> "S" [] c = "t" -> "T" [] c = "u" -> "U" [] c = "v" -> "V" [] c = "w" -> "W" [] c = "x" -> "X"
      [] c = "y" -> "Y" [] c = "z" -> "Z"
      [] OTHER -> c

Upper(s) == [i \in 1..Len(s) |-> UpperCh(s[i])]

USD == <<"U", "S", "D">>
EUR == <<"E", "U", "R">>
GBP == <<"G", "B", "P">>

\* os.environ.get("CANONICAL_BASE", "USD")
CANONICAL_BASE == USD

\* The base keys and rate keys the Rates table holds in the model
Currency == {USD, EUR, GBP}

(***************************************************************************)
(* Digit sequences                                                         *)
(***************************************************************************)
Zeros(n) == [i \in 1..n |-> 0]

AllZero(ds) == \A i \in 1..Len(ds) : ds[i] = 0

RECURSIVE StripLead(_)
StripLead(ds) ==
    IF Len(ds) > 1 /\ ds[1] = 0 THEN StripLead(Tail(ds)) ELSE ds

RECURSIVE NatDigits(_)
NatDigits(n) ==
    IF n < 10 THEN <<n>> ELSE Append(NatDigits(n \div 10), n % 10)

RECURSIVE ToNat(_)
ToNat(ds) ==
    IF Len(ds) = 0 THEN 0
    ELSE 10 * ToNat(SubSeq(ds, 1, Len(ds) - 1)) + ds[Len(ds)]

\* ds * m, schoolbook, least significant digit first; the carry stays small
RECURSIVE MulCarry(_, _, _, _)
MulCarry(ds, m, i, carry) ==
    IF i = 0 THEN (IF carry = 0 THEN <<>> ELSE NatDigits(carry))
    ELSE LET p == ds[i] * m + carry
         IN  Append(MulCarry(ds, m, i - 1, p \div 10), p % 10)

MulSmall(ds, m) == StripLead(MulCarry(ds, m, Len(ds), 0))

\* ds + 1
RECURSIVE Inc(_)
Inc(ds) ==
    IF Len(ds) = 0 THEN <<1>>
    ELSE IF ds[Len(ds)] < 9
         THEN [ds EXCEPT ![Len(ds)] = @ + 1]
         ELSE Append(Inc(SubSeq(ds, 1, Len(ds) - 1)), 0)

\* n further digits of the long division of r by b (0 <= r < b), and the
\* remainder left
RECURSIVE LongDiv(_, _, _)
LongDiv(r, b, n) ==
    IF n = 0 THEN [digits |-> <<>>, rem |-> r]
    ELSE LET rest == LongDiv((r * 10) % b, b, n - 1)
         IN  [digits |-> <<(r * 10) \div b>> \o rest.digits, rem |-> rest.rem]

(***************************************************************************)
(* decimal.Decimal under the default context                               *)
(***************************************************************************)
\* decimal.getcontext().prec, the default context app.py runs under
DecPrec == 28

\* fractional digits of Decimal("0.0001")
QuantDigits == 4

Dec(sign, coef, exp) ==
    [kind |-> "finite", sign |-> sign, coef |-> coef, exp |-> exp]

DecNaN == [kind |-> "NaN", sign |-> 0, coef |-> <<0>>, exp |-> 0]
DecInf(sign) == [kind |-> "Infinity", sign |-> sign, coef |-> <<0>>, exp |-> 0]

\* what a raising Decimal operation yields in place of a value
InvalidOperation == [kind |-> "InvalidOperation", sign |-> 0, coef |-> <<0>>, exp |-> 0]

DecOne == Dec(0, <<1>>, 0)

IsZero(d) == d.kind = "finite" /\ AllZero(d.coef)

\* Decimal._round_half_up at position n: 1 up, 0 exact, -1 down
RoundHalfUp(coef, n) ==
    IF coef[n + 1] >= 5 THEN 1
    ELSE IF AllZero(SubSeq(coef, n + 1, Len(coef))) THEN 0 ELSE -1

\* Decimal._round_half_even at position n
RoundHalfEven(coef, n) ==
    IF /\ coef[n + 1] = 5
       /\ AllZero(SubSeq(coef, n + 2, Len(coef)))
       /\ (n = 0 \/ coef[n] % 2 = 0)
    THEN -1
    ELSE RoundHalfUp(coef, n)

\* Decimal._fix: round a finite result to the context precision, half even
Fix(d) ==
    IF IsZero(d) \/ Len(d.coef) <= DecPrec THEN d
    ELSE LET kept == SubSeq(d.coef, 1, DecPrec)
             up   == IF RoundHalfEven(d.coef, DecPrec) = 1 THEN Inc(kept) ELSE kept
             e    == d.exp + (Len(d.coef) - DecPrec)
         IN  IF Len(up) > DecPrec
             THEN Dec(d.sign, SubSeq(up, 1, DecPrec), e + 1)
             ELSE Dec(d.sign, up, e)

RECURSIVE DropZeros(_, _, _)
\* the exact quotient is brought as close to the ideal exponent as its
\* trailing zeros allow
DropZeros(coef, exp, ideal) ==
    IF exp < ideal /\ Len(coef) > 1 /\ coef[Len(coef)] = 0
    THEN DropZeros(SubSeq(coef, 1, Len(coef) - 1), exp + 1, ideal)
    ELSE [coef |-> coef, exp |-> exp]

\* Decimal.__truediv__ for finite a, b with b # 0
DecDiv(a, b) ==
    IF IsZero(a) THEN Dec((a.sign + b.sign) % 2, <<0>>, a.exp - b.exp)
    ELSE LET A     == ToNat(a.coef)
             B     == ToNat(b.coef)
             shift == Len(b.coef) - Len(a.coef) + DecPrec + 1
             exp   == a.exp - b.exp - shift
             ld    == LongDiv(A % B, B, shift)
             coeff == StripLead(NatDigits(A \div B) \o ld.digits)
             last  == coeff[Len(coeff)]
             adj   == IF ld.rem # 0
                      THEN [coef |-> IF last % 5 = 0
                                     THEN [coeff EXCEPT ![Len(coeff)] = @ + 1]
                                     ELSE coeff,
                            exp  |-> exp]
                      ELSE DropZeros(coeff, exp, a.exp - b.exp)
         IN  Fix(Dec((a.sign + b.sign) % 2, adj.coef, adj.exp))

\* Decimal.__mul__ with a the amount (a short coefficient)
DecMul(a, b) ==
    IF a.kind = "Infinity"
    THEN (IF IsZero(b) THEN InvalidOperation ELSE DecInf((a.sign + b.sign) % 2))
    ELSE IF IsZero(a) \/ IsZero(b)
         THEN Dec((a.sign + b.sign) % 2, <<0>>, a.exp + b.exp)
         ELSE Fix(Dec((a.sign + b.sign) % 2,
                      MulSmall(b.coef, ToNat(a.coef)), a.exp + b.exp))

\* Decimal._rescale(-QuantDigits, ROUND_HALF_UP) of a nonzero finite d
Rescale(d) ==
    IF d.exp >= -QuantDigits
    THEN Dec(d.sign, d.coef \o Zeros(d.exp + QuantDigits), -QuantDigits)
    ELSE LET digits == Len(d.coef) + d.exp + QuantDigits
             src    == IF digits < 0 THEN <<1>> ELSE d.coef
             n      == IF digits < 0 THEN 0 ELSE digits
             kept   == IF n = 0 THEN <<0>> ELSE SubSeq(src, 1, n)
             changed == RoundHalfUp(src, n)
         IN  Dec(d.sign, IF changed = 1 THEN StripLead(Inc(kept)) ELSE kept,
                 -QuantDigits)

\* x.quantize(Decimal("0.0001"), rounding=ROUND_HALF_UP)
Quantize(d) ==
    IF d.kind # "finite" THEN InvalidOperation
    ELSE IF IsZero(d) THEN Dec(d.sign, <<0>>, -QuantDigits)
    ELSE IF Len(d.coef) + d.exp + QuantDigits > DecPrec THEN InvalidOperation
    ELSE LET ans == Rescale(d)
         IN  IF Len(ans.coef) > DecPrec THEN InvalidOperation ELSE ans


\* float(x): the double nearest to x.  A double carries the number alone (no
\* trailing zeros, no exponent of its own); every quantized value of the
\* model has at most 15 significant digits, where the conversion loses
\* nothing.
RECURSIVE Normal(_, _)
Normal(coef, exp) ==
    IF Len(coef) > 1 /\ coef[Len(coef)] = 0
    THEN Normal(SubSeq(coef, 1, Len(coef) - 1), exp + 1)
    ELSE [coef |-> coef, exp |-> exp]

Float(d) ==
    IF d.kind # "finite" THEN d
    ELSE IF AllZero(d.coef) THEN Dec(d.sign, <<0>>, 0)
    ELSE LET n == Normal(d.coef, d.exp) IN Dec(d.sign, n.coef, n.exp)

(***************************************************************************)
(* Decimal(str): the numeric-string grammar                                *)
(*     [sign] digits ["." digits] ["E" [sign] digits] | [sign] NaN |       *)
(*     [sign] Infinity                                                     *)
(***************************************************************************)
DigitCh == {"0", "1", "2", "3", "4", "5", "6", "7", "8", "9"}

DigitVal(c) ==
    CASE c = "0" -> 0 [] c = "1" -> 1 [] c = "2" -> 2 [] c = "3" -> 3
      [] c = "4" -> 4 [] c = "5" -> 5 [] c = "6" -> 6 [] c = "7" -> 7
      [] c = "8" -> 8 [] c = "9" -> 9

\* length of the longest prefix of s made of digits
RECURSIVE DigitRun(_)
DigitRun(s) ==
    IF Len(s) > 0 /\ s[1] \in DigitCh THEN 1 + DigitRun(Tail(s)) ELSE 0

Drop(s, n) == SubSeq(s, n + 1, Len(s))

DigitVals(s) == [i \in 1..Len(s) |-> DigitVal(s[i])]

\* the digits of the exponent, which must end the string
ParseExpDigits(sign, digits, nf, esign, r) ==
    IF Len(r) = 0 \/ DigitRun(r) # Len(r) THEN InvalidOperation
    ELSE Dec(sign, StripLead(digits), esign * ToNat(DigitVals(r)) - nf)

\* what follows the mantissa: nothing, or E and a signed exponent
ParseExp(sign, digits, nf, r) ==
    IF Len(r) = 0 THEN Dec(sign, StripLead(digits), -nf)
    ELSE IF r[1] \notin {"E", "e"} THEN InvalidOperation
    ELSE IF Len(r) > 1 /\ r[2] \in {"+", "-"}
    THEN ParseExpDigits(sign, digits, nf, IF r[2] = "-" THEN -1 ELSE 1, Drop(r, 2))
    ELSE ParseExpDigits(sign, digits, nf, 1, Tail(r))

\* the mantissa needs a digit before or after the point
ParseMantissa(sign, digits, nf, r) ==
    IF Len(digits) = 0 THEN InvalidOperation ELSE ParseExp(sign, digits, nf, r)

ParseFracDigits(sign, ip, r, nf) ==
    ParseMantissa(sign, ip \o DigitVals(SubSeq(r, 1, nf)), nf, Drop(r, nf))

ParseFrac(sign, ip, r) ==
    IF Len(r) > 0 /\ r[1] = "."
    THEN ParseFracDigits(sign, ip, Tail(r), DigitRun(Tail(r)))
    ELSE ParseMantissa(sign, ip, 0, r)

ParseInt(sign, body, ni) ==
    ParseFrac(sign, DigitVals(SubSeq(body, 1, ni)), Drop(body, ni))

ParseBody(sign, body) ==
    IF Upper(body) = <<"N", "A", "N">> THEN DecNaN
    ELSE IF Upper(body) = <<"I", "N", "F", "I", "N", "I", "T", "Y">>
    THEN DecInf(sign)
    ELSE ParseInt(sign, body, DigitRun(body))

ParseDecimal(s) ==
    IF Len(s) > 0 /\ s[1] \in {"+", "-"}
    THEN ParseBody(IF s[1] = "-" THEN 1 ELSE 0, Tail(s))
    ELSE ParseBody(0, s)

\* _to_dec(x) == Decimal(str(x)); a stored number is held as its str()
_to_dec(x) == ParseDecimal(x)

\* _round4(x)
_round4(x) ==
    LET q == Quantize(x) IN IF q.kind = "finite" THEN Float(q) ELSE q


\* str(n) for an integer n >= 0
DigitChar(d) ==
    CASE d = 0 -> "0" [] d = 1 -> "1" [] d = 2 -> "2" [] d = 3 -> "3"
      [] d = 4 -> "4" [] d = 5 -> "5" [] d = 6 -> "6" [] d = 7 -> "7"
      [] d = 8 -> "8" [] OTHER -> "9"

DigitChars(ds) == [i \in 1..Len(ds) |-> DigitChar(ds[i])]

\* Decimal.__str__ of a finite d with its point after dotplace digits
DecStrAt(d, leftdigits, dotplace) ==
    (IF d.sign = 1 THEN <<"-">> ELSE <<>>)
    \o (IF dotplace <= 0
        THEN <<"0", ".">> \o DigitChars(Zeros(-dotplace) \o d.coef)
        ELSE IF dotplace >= Len(d.coef)
        THEN DigitChars(d.coef \o Zeros(dotplace - Len(d.coef)))
        ELSE DigitChars(SubSeq(d.coef, 1, dotplace)) \o <<".">>
             \o DigitChars(Drop(d.coef, dotplace)))
    \o (IF leftdigits = dotplace THEN <<>>
        ELSE <<"E", IF leftdigits > dotplace THEN "+" ELSE "-">>
             \o DigitChars(NatDigits(IF leftdigits > dotplace
                                     THEN leftdigits - dotplace
                                     ELSE dotplace - leftdigits)))

DecStr(d) ==
    IF d.exp <= 0 /\ d.exp + Len(d.coef) > -6
    THEN DecStrAt(d, d.exp + Len(d.coef), d.exp + Len(d.coef))
    ELSE DecStrAt(d, d.exp + Len(d.coef), 1)

(***************************************************************************)
(* State                                                                   *)
(***************************************************************************)
VARIABLES
    store,      \* the Rates table: base -> item
    event,      \* queryStringParameters of the conversion request
    pc,         \* where the conversion request is
    from_cur,   \* lambda_handler's locals
    to_cur,
    amount,
    rate_info,  \* what compute_rate returned
    response,   \* what lambda_handler returned
    raised,     \* the exception that ended the invocation, "" when none did
    reads,      \* get_item calls of the request so far
    faults,     \* how many of them failed
    clock,      \* invocations of the insert Lambda so far, its time
    inserted,   \* how the last invocation of the insert Lambda ended
    hist        \* the table states that existed since the request reached
                \* compute_rate, oldest first

vars == <<store, event, pc, from_cur, to_cur, amount, rate_info, response,
          raised, reads, faults, clock, inserted, hist>>

(***************************************************************************)
(* The Rates table.  An item holds each rate as the str() of the Decimal   *)
(* get_item returns for it.                                                *)
(***************************************************************************)
\* res.get("Item") of a key the table does not hold
NoItem == [exists |-> FALSE, hasRates |-> FALSE, rates |-> <<>>, asOf |-> 0]

\* rates_table.get_item(Key={"base": base.upper()}).get("Item") on table tbl
GetItem(tbl, base) ==
    IF Upper(base) \in DOMAIN tbl THEN tbl[Upper(base)] ELSE NoItem

get_rates_for_base(base) == GetItem(store, base)

\* item and "rates" in item and cur in item["rates"]
HasRate(item, cur) ==
    item.exists /\ item.hasRates /\ cur \in DOMAIN item.rates

(***************************************************************************)
(* compute_rate, one strategy per store read                               *)
(***************************************************************************)
None == [rate |-> DecNaN, asOf |-> 0, provenance |-> "None", baseUsed |-> <<>>]

\* the quotient quantized before it is returned
CrossRate_rounded(rate_to, rate_from) == Quantize(DecDiv(rate_to, rate_from))

\* rate(from->to) = rate(base->to) / rate(base->from)
CrossRate(rate_to, rate_from) == DecDiv(rate_to, rate_from)

\* the rate of the opposite direction, not inverted
InverseRate_same(r) == r

\* 1 to_cur = r from_cur  =>  1 from_cur = 1/r to_cur
InverseRate(r) == DecDiv(DecOne, r)

Direct(item_from, f, t) ==
    IF HasRate(item_from, t)
    THEN [rate |-> _to_dec(item_from.rates[t]), asOf |-> item_from.asOf,
          provenance |-> "direct", baseUsed |-> f]
    ELSE None

CrossOf(item_base, rate_to, rate_from) ==
    IF ~IsZero(rate_from)
    THEN [rate |-> CrossRate(rate_to, rate_from), asOf |-> item_base.asOf,
          provenance |-> "cross", baseUsed |-> CANONICAL_BASE]
    ELSE None

Cross(item_base, f, t) ==
    IF HasRate(item_base, f) /\ HasRate(item_base, t)
    THEN CrossOf(item_base, _to_dec(item_base.rates[t]),
                 _to_dec(item_base.rates[f]))
    ELSE None

InverseOf(item_to, r, t) ==
    IF ~IsZero(r)
    THEN [rate |-> InverseRate(r), asOf |-> item_to.asOf,
          provenance |-> "inverse", baseUsed |-> t]
    ELSE None

Inverse(item_to, f, t) ==
    IF HasRate(item_to, f)
    THEN InverseOf(item_to, _to_dec(item_to.rates[f]), t)
    ELSE None

\* the direct strategy skipped
FirstStrategy_cross == "cross"

\* the strategy compute_rate tries first
FirstStrategy == "direct"

\* the direct strategy tried again after inverse
NextStrategy_again(s) ==
    CASE s = "direct" -> "cross" [] s = "cross" -> "inverse" [] OTHER -> "direct"

\* the strategy compute_rate tries after s
NextStrategy(s) ==
    CASE s = "direct" -> "cross" [] s = "cross" -> "inverse" [] OTHER -> "none"

\* the inverse strategy reading the item of from_cur
StrategyBase_from(s, f, t) ==
    CASE s = "direct" -> f [] s = "cross" -> CANONICAL_BASE [] OTHER -> f

\* the base a strategy reads
StrategyBase(s, f, t) ==
    CASE s = "direct" -> f [] s = "cross" -> CANONICAL_BASE [] OTHER -> t

\* what a strategy makes of the item it read
StrategyResult(s, item, f, t) ==
    CASE s = "direct" -> Direct(item, f, t)
      [] s = "cross" -> Cross(item, f, t)
      [] OTHER -> Inverse(item, f, t)

(***************************************************************************)
(* lambda_handler of app.py                                                *)
(***************************************************************************)
MISSING_PARAMS == "Required query params: from, to, amount"
BAD_CURRENCY_CODE == "Currency codes must be 3 letters (ISO 4217)"
NEGATIVE_AMOUNT == "Amount must be non-negative"
BAD_AMOUNT == "Amount must be a valid number"

_json(status, body) ==
    [statusCode |-> status,
     headers |-> [ContentType |-> "application/json", AllowOrigin |-> "*"],
     body |-> body]

NoResponse == _json(0, <<>>)

\* (qs.get(k) or "")
GetOrEmpty(qs, k) == IF k \in DOMAIN qs THEN qs[k] ELSE <<>>

\* amount <= 0
Negative_orZero(a) == a.kind \in {"finite", "Infinity"} /\ (a.sign = 1 \/ IsZero(a))

\* amount < 0 (an ordering comparison with NaN raises InvalidOperation)
Negative(a) == a.kind \in {"finite", "Infinity"} /\ a.sign = 1 /\ ~IsZero(a)

\* the try block of lines 115-120 on a parsed amount
ValidateAmount(a) ==
    IF a.kind \in {"InvalidOperation", "NaN"} THEN BAD_AMOUNT
    ELSE IF Negative(a) THEN NEGATIVE_AMOUNT
    ELSE ""

\* the validation of lines 110-120: the error message, or "" when the
\* request passes
Validate(qs, f, t) ==
    IF Len(f) = 0 \/ Len(t) = 0 \/ "amount" \notin DOMAIN qs
    THEN MISSING_PARAMS
    ELSE IF Len(f) # 3 \/ Len(t) # 3 THEN BAD_CURRENCY_CODE
    ELSE ValidateAmount(_to_dec(qs["amount"]))

Identity(f, t, a) ==
    _json(200, [from |-> f, to |-> t, amount |-> Float(a), rate |-> DecOne,
                result |-> _round4(a), asOf |-> 0, provenance |-> "identity"])

\* a zero rate in place of the 404
NotFound_zero(f, t) ==
    _json(200, [from |-> f, to |-> t, amount |-> DecOne,
                rate |-> Dec(0, <<0>>, 0), result |-> Dec(0, <<0>>, 0),
                asOf |-> 0, provenance |-> "None", baseUsed |-> <<>>])

NotFound(f, t) ==
    _json(404, [error |-> <<"Cannot compute ", f, "->", t,
                            " from cached rates only">>,
                hint  |-> <<"Ensure Rates table has base='", f, "' with '", t,
                            "' in rates OR base='", CANONICAL_BASE,
                            "' with both '", f, "' and '", t, "' present.">>])

Converted(f, t, a, ri) ==
    _json(200, [from |-> f, to |-> t, amount |-> Float(a),
                rate |-> _round4(ri.rate),
                result |-> _round4(DecMul(a, ri.rate)),
                asOf |-> ri.asOf, provenance |-> ri.provenance,
                baseUsed |-> ri.baseUsed])

\* building this response raised: a quantize, or the product before it
Raises(resp) ==
    resp.statusCode = 200
    /\ (resp.body.result.kind # "finite" \/ resp.body.rate.kind # "finite")

\* the handler returns resp, or ends in the exception building it raised
Return(resp) ==
    /\ pc' = "done"
    /\ IF Raises(resp)
       THEN response' = NoResponse /\ raised' = "InvalidOperation"
       ELSE response' = resp /\ raised' = ""

\* lines 122-134 of a request that passed validation
Dispatch(f, t, a) ==
    /\ from_cur' = f
    /\ to_cur' = t
    /\ amount' = a
    /\ IF f = t
       THEN Return(Identity(f, t, a)) /\ UNCHANGED hist
       ELSE /\ pc' = FirstStrategy
            /\ hist' = <<store>>
            /\ UNCHANGED <<response, raised>>

Handle(f, t, err) ==
    IF err # ""
    THEN /\ Return(_json(400, [error |-> err]))
         /\ UNCHANGED <<from_cur, to_cur, amount, hist>>
    ELSE Dispatch(f, t, _to_dec(event["amount"]))

HandleParams(f, t) == Handle(f, t, Validate(event, f, t))

\* lines 104-134: validation, the identity conversion, the call of
\* compute_rate
lambda_handler ==
    /\ pc = "handler"
    /\ HandleParams(Upper(GetOrEmpty(event, "from")),
                    Upper(GetOrEmpty(event, "to")))
    /\ UNCHANGED <<store, event, rate_info, reads, faults, clock, inserted>>

\* compute_rate has its result r (lines 135-155), or goes on to its next
\* strategy
Resolve(s, r) ==
    IF r # None
    THEN /\ rate_info' = r
         /\ Return(Converted(from_cur, to_cur, amount, r))
    ELSE IF NextStrategy(s) = "none"
    THEN /\ rate_info' = None
         /\ Return(NotFound(from_cur, to_cur))
    ELSE /\ pc' = NextStrategy(s)
         /\ UNCHANGED <<rate_info, response, raised>>

\* one strategy of compute_rate: its get_item and what it makes of the item
Strategy(s) ==
    /\ reads' = reads + 1
    /\ Resolve(s, StrategyResult(s,
                    get_rates_for_base(StrategyBase(s, from_cur, to_cur)),
                    from_cur, to_cur))
    /\ UNCHANGED <<store, event, from_cur, to_cur, amount, faults, clock,
                   inserted, hist>>

\* lines 54-63
compute_rate_direct == pc = "direct" /\ Strategy("direct")

\* lines 65-80
compute_rate_cross == pc = "cross" /\ Strategy("cross")

\* lines 82-96
compute_rate_inverse == pc = "inverse" /\ Strategy("inverse")

\* the failed read taken for a missing item
get_item_absent ==
    /\ pc \in {"direct", "cross", "inverse"}
    /\ reads' = reads + 1
    /\ faults' = faults + 1
    /\ Resolve(pc, None)
    /\ UNCHANGED <<store, event, from_cur, to_cur, amount, clock, inserted,
                   hist>>

\* rates_table.get_item raises (botocore ClientError): nothing in
\* get_rates_for_base, compute_rate or lambda_handler catches it
get_item_raises ==
    /\ pc \in {"direct", "cross", "inverse"}
    /\ reads' = reads + 1
    /\ faults' = faults + 1
    /\ raised' = "ClientError"
    /\ pc' = "done"
    /\ UNCHANGED <<store, event, from_cur, to_cur, amount, rate_info,
                   response, clock, inserted, hist>>


(***************************************************************************)
(* lambda_handler of test_db_connection.py: insert one rate                *)
(***************************************************************************)
\* invocations of the insert Lambda in one behaviour
MaxInserts == 2

\* event.get(k, default)
GetOr(ev, k, default) == IF k \in DOMAIN ev THEN ev[k] ELSE default

\* update_item SET rates.#cur = :r, asOf = :asOf on the item of a base.  The
\* document path rates.#cur exists only in an item that has a rates map; on
\* any other item DynamoDB rejects the update and writes nothing.
UpdateItem(tbl, base, currency, rate, now) ==
    [tbl EXCEPT ![base] =
        [exists |-> TRUE, hasRates |-> TRUE,
         rates |-> [c \in DOMAIN tbl[base].rates \cup {currency} |->
                      IF c = currency THEN rate ELSE tbl[base].rates[c]],
         asOf |-> now]]

PathExists(tbl, base) ==
    base \in DOMAIN tbl /\ tbl[base].exists /\ tbl[base].hasRates

\* lines 28-37, with the rate parsed
Update(base, currency, rate) ==
    IF rate.kind # "finite"
    THEN inserted' = "InvalidOperation" /\ UNCHANGED <<store, hist>>
    ELSE IF ~PathExists(store, base)
    THEN inserted' = "ClientError" /\ UNCHANGED <<store, hist>>
    ELSE /\ inserted' = "200"
         /\ store' = UpdateItem(store, base, currency, DecStr(rate), 10 + clock')
         /\ hist' = IF pc \in {"direct", "cross", "inverse"}
                    THEN Append(hist, store')
                    ELSE hist

insert_rate(ev) ==
    /\ clock < MaxInserts
    /\ clock' = clock + 1
    /\ Update(Upper(GetOr(ev, "base", USD)),
              Upper(GetOr(ev, "currency", EUR)),
              _to_dec(GetOr(ev, "rate", <<"0", ".", "9", "2", "0", "4">>)))
    /\ UNCHANGED <<event, pc, from_cur, to_cur, amount, rate_info, response,
                   raised, reads, faults>>

(***************************************************************************)
(* Initial states and inputs                                               *)
(***************************************************************************)
\* the asOf label of the item of base b before any insert
InitAsOf(b) == CASE b = USD -> 1 [] b = EUR -> 2 [] OTHER -> 3

\* the non-zero rate an initial table holds for currency c under base b
InitRate(b, c) ==
    CASE b = USD /\ c = EUR -> <<"0", ".", "9", "2">>
      [] b = USD /\ c = GBP -> <<"0", ".", "7", "9">>
      [] b = USD /\ c = USD -> <<"1">>
      [] b = EUR /\ c = USD -> <<"1", ".", "0", "9">>
      [] b = EUR /\ c = GBP -> <<"0", ".", "8", "6">>
      [] b = GBP /\ c = USD -> <<"1", ".", "2", "5">>
      [] OTHER -> <<"3">>

ZeroRate == <<"0">>

\* an item holds no rate of its own base, except the canonical base's
Keys(b) == IF b = CANONICAL_BASE THEN Currency ELSE Currency \ {b}

\* every rates map over some of the keys, each rate zero or InitRate
RateMaps(b) ==
    UNION {{m \in [K -> {ZeroRate} \cup {InitRate(b, c) : c \in K}] :
              \A c \in K : m[c] \in {ZeroRate, InitRate(b, c)}} :
           K \in SUBSET Keys(b)}

ItemWith(b, m) ==
    [exists |-> TRUE, hasRates |-> TRUE, rates |-> m, asOf |-> InitAsOf(b)]

\* an item without the rates attribute
BareItem(b) ==
    [exists |-> TRUE, hasRates |-> FALSE, rates |-> <<>>, asOf |-> InitAsOf(b)]

Items(b) == {NoItem, BareItem(b)} \cup {ItemWith(b, m) : m \in RateMaps(b)}

\* no item, or the item with every key at its non-zero rate
FullItems(b) == {NoItem, ItemWith(b, [c \in Keys(b) |-> InitRate(b, c)])}

\* no item, or the item with an empty rates map
EmptyItems(b) == {NoItem} \cup {ItemWith(b, m) : m \in [{} -> {ZeroRate}]}

Table(u, e, g) ==
    [b \in Currency |-> CASE b = USD -> u [] b = EUR -> e [] OTHER -> g]

Stores == {Table(u, e, g) : u \in Items(USD), e \in Items(EUR), g \in Items(GBP)}

FullStores ==
    {Table(u, e, g) : u \in FullItems(USD), e \in FullItems(EUR), g \in FullItems(GBP)}

EmptyStores ==
    {Table(u, e, g) : u \in EmptyItems(USD), e \in EmptyItems(EUR), g \in EmptyItems(GBP)}

Absent == <<"absent">>

\* queryStringParameters with the given values, Absent for a missing one
Qs(f, t, a) ==
    [k \in (IF f = Absent THEN {} ELSE {"from"})
           \cup (IF t = Absent THEN {} ELSE {"to"})
           \cup (IF a = Absent THEN {} ELSE {"amount"}) |->
        CASE k = "from" -> f [] k = "to" -> t [] OTHER -> a]

\* the insert Lambda's event, likewise
InsertEvent(b, c, r) ==
    [k \in (IF b = Absent THEN {} ELSE {"base"})
           \cup (IF c = Absent THEN {} ELSE {"currency"})
           \cup (IF r = Absent THEN {} ELSE {"rate"}) |->
        CASE k = "base" -> b [] k = "currency" -> c [] OTHER -> r]

ResolveAmounts == {<<"2", ".", "5">>, <<"1", "E", "+", "2", "5">>}

ResolveEvents ==
    {Qs(f, t, a) : f \in Currency, t \in Currency, a \in ResolveAmounts}

RawCodes == {Absent, <<>>, <<"U", "S">>, <<"u", "s", "d">>, USD, EUR}

RawAmounts ==
    {Absent, <<>>, <<"a", "b", "c">>, <<"N", "a", "N">>, <<"-", "1">>,
     <<"-", "I", "n", "f", "i", "n", "i", "t", "y">>,
     <<"0">>, <<"2", ".", "5">>, <<"0", ".", "0", "0", "0", "0", "5">>,
     <<"1", "E", "+", "2", "5">>, <<"I", "n", "f", "i", "n", "i", "t", "y">>}

AllEvents == {Qs(f, t, a) : f \in RawCodes, t \in RawCodes, a \in RawAmounts}

InsertEvents ==
    {InsertEvent(b, c, r) :
        b \in {Absent, EUR},
        c \in {Absent, <<"g", "b", "p">>, USD},
        r \in {Absent, ZeroRate}}

RaceEvents ==
    {Qs(f, t, <<"2", ".", "5">>) : f \in {EUR, USD}, t \in {GBP, USD}}

InitWith(S, E) ==
    /\ store \in S
    /\ event \in E
    /\ pc = "handler"
    /\ from_cur = <<>>
    /\ to_cur = <<>>
    /\ amount = DecNaN
    /\ rate_info = None
    /\ response = NoResponse
    /\ raised = ""
    /\ reads = 0
    /\ faults = 0
    /\ clock = 0
    /\ inserted = ""
    /\ hist = <<>>

(***************************************************************************)
(* Specifications                                                          *)
(***************************************************************************)
\* one conversion request over a table nothing writes to
Init == InitWith(Stores, ResolveEvents)

Next ==
    \/ lambda_handler
    \/ compute_rate_direct
    \/ compute_rate_cross
    \/ compute_rate_inverse

Spec == Init /\ [][Next]_vars

\* every shape of request, well-formed or not
InitValidation == InitWith(FullStores, AllEvents)

SpecValidation == InitValidation /\ [][Next]_vars

\* the insert Lambda runs beside the request
InitInsert == InitWith(EmptyStores, RaceEvents)

NextInsert ==
    \/ Next
    \/ \E ev \in InsertEvents : insert_rate(ev)

SpecInsert == InitInsert /\ [][NextInsert]_vars

\* get_item may fail
InitFault == InitWith(FullStores, ResolveEvents)

NextFault ==
    \/ Next
    \/ get_item_raises

SpecFault == InitFault /\ [][NextFault]_vars


(***************************************************************************)
(* Properties                                                              *)
(***************************************************************************)
\* compute_rate was called and the invocation has ended
Returned == pc = "done" /\ reads > 0

\* the item of base b holds a rate for c
Entry(b, c) == store[b].exists /\ store[b].hasRates /\ c \in DOMAIN store[b].rates

RateAt(b, c) == ParseDecimal(store[b].rates[c])

DirectData == Entry(from_cur, to_cur)

CrossData == Entry(CANONICAL_BASE, from_cur) /\ Entry(CANONICAL_BASE, to_cur)

CrossUsable == CrossData /\ ~IsZero(RateAt(CANONICAL_BASE, from_cur))

InverseData == Entry(to_cur, from_cur)

InverseUsable == InverseData /\ ~IsZero(RateAt(to_cur, from_cur))

\* natural numbers as digit sequences: a + b and a <= b
RECURSIVE AddCarry(_, _, _, _)
AddCarry(a, b, i, carry) ==
    IF i = 0 THEN (IF carry = 0 THEN <<>> ELSE <<carry>>)
    ELSE LET v == a[i] + b[i] + carry
         IN  Append(AddCarry(a, b, i - 1, v \div 10), v % 10)

PadLeft(ds, n) == Zeros(n - Len(ds)) \o ds

AddDigits(a, b) ==
    LET n == IF Len(a) > Len(b) THEN Len(a) ELSE Len(b)
    IN  StripLead(AddCarry(PadLeft(a, n), PadLeft(b, n), n, 0))

RECURSIVE LexLessEq(_, _)
LexLessEq(a, b) ==
    IF Len(a) = 0 THEN TRUE
    ELSE IF a[1] # b[1] THEN a[1] < b[1]
    ELSE LexLessEq(Tail(a), Tail(b))

LessEq(a, b) ==
    Len(a) < Len(b) \/ (Len(a) = Len(b) /\ LexLessEq(a, b))

\* q * d and n as integers at the smaller of their two exponents
ScaledProduct(q, d, e) ==
    StripLead(MulSmall(q.coef, ToNat(d.coef)) \o Zeros(q.exp + d.exp - e))

Scaled(n, e) == StripLead(n.coef \o Zeros(n.exp - e))

MinExp(q, n, d) == IF q.exp + d.exp < n.exp THEN q.exp + d.exp ELSE n.exp

\* q = n / d, for finite n >= 0 and d > 0
ExactQuotient(q, n, d) ==
    /\ q.kind = "finite"
    /\ q.sign = 0
    /\ ScaledProduct(q, d, MinExp(q, n, d)) = Scaled(n, MinExp(q, n, d))

\* |q * d - n| <= d * ulp(q) / 2
WithinHalfUlp(L, R, H) ==
    /\ LessEq(AddDigits(L, L), AddDigits(AddDigits(R, R), H))
    /\ LessEq(AddDigits(R, R), AddDigits(AddDigits(L, L), H))

\* q is n / d rounded to DecPrec significant digits: n / d itself when that
\* has no more digits, else the nearest number of DecPrec digits
RoundedQuotient(q, n, d) ==
    \/ ExactQuotient(q, n, d)
    \/ /\ q.kind = "finite"
       /\ q.sign = 0
       /\ Len(q.coef) = DecPrec
       /\ WithinHalfUlp(ScaledProduct(q, d, MinExp(q, n, d)),
                        Scaled(n, MinExp(q, n, d)),
                        StripLead(d.coef \o Zeros(q.exp + d.exp - MinExp(q, n, d))))

\* C1: strategies are tried in the order direct, cross, inverse and the
\* first success wins: when the item of base=from holds a rate for to, the
\* result is direct with baseUsed = from and the stored rate verbatim, after
\* one read, whatever the canonical-base item and the item of base=to hold;
\* cross is returned only when direct found nothing, inverse only when
\* neither direct nor cross produced a result.
C1_DirectPrecedence ==
    Returned =>
        /\ DirectData =>
              /\ rate_info.provenance = "direct"
              /\ rate_info.baseUsed = from_cur
              /\ rate_info.rate.kind = "finite"
              /\ DecStr(rate_info.rate) = store[from_cur].rates[to_cur]
              /\ reads = 1
        /\ rate_info.provenance = "cross" => ~DirectData
        /\ rate_info.provenance = "inverse" => ~DirectData /\ ~CrossUsable

C1_Witness ==
    /\ Returned
    /\ DirectData /\ CrossUsable /\ InverseUsable
    /\ rate_info.provenance = "direct"

CrossCase == Returned /\ CrossUsable /\ ~DirectData

\* C2 as stated: with the canonical-base item holding rates[from] = f # 0
\* and rates[to] = t and no direct entry, compute_rate returns rate exactly
\* t/f, provenance cross, baseUsed the canonical base, asOf of that item.
C2_CrossExact ==
    CrossCase =>
        /\ rate_info.provenance = "cross"
        /\ rate_info.baseUsed = CANONICAL_BASE
        /\ rate_info.asOf = store[CANONICAL_BASE].asOf
        /\ ExactQuotient(rate_info.rate, RateAt(CANONICAL_BASE, to_cur),
                         RateAt(CANONICAL_BASE, from_cur))

\* C2 amended: in that case compute_rate returns provenance cross, baseUsed
\* the canonical base, asOf of that item, and as rate t/f rounded to the 28
\* significant digits of the decimal context (t/f itself when it has no
\* more digits), not quantized to 4 places.
C2_CrossRounded ==
    CrossCase =>
        /\ rate_info.provenance = "cross"
        /\ rate_info.baseUsed = CANONICAL_BASE
        /\ rate_info.asOf = store[CANONICAL_BASE].asOf
        /\ RoundedQuotient(rate_info.rate, RateAt(CANONICAL_BASE, to_cur),
                           RateAt(CANONICAL_BASE, from_cur))

C2_Witness ==
    /\ CrossCase
    /\ rate_info.provenance = "cross"
    /\ ~ExactQuotient(rate_info.rate, RateAt(CANONICAL_BASE, to_cur),
                      RateAt(CANONICAL_BASE, from_cur))

InverseCase == Returned /\ InverseUsable /\ ~DirectData /\ ~CrossUsable

\* C3 as stated: with the item of base=to holding rates[from] = r # 0 and
\* neither direct nor cross yielding a result, compute_rate returns rate
\* 1/r, provenance inverse, baseUsed = to, asOf of that item.
C3_InverseExact ==
    InverseCase =>
        /\ rate_info.provenance = "inverse"
        /\ rate_info.baseUsed = to_cur
        /\ rate_info.asOf = store[to_cur].asOf
        /\ ExactQuotient(rate_info.rate, DecOne, RateAt(to_cur, from_cur))

\* C3 amended: in that case compute_rate returns provenance inverse,
\* baseUsed = to, asOf of that item, and as rate 1/r rounded to the 28
\* significant digits of the decimal context (1/r itself when it has no
\* more digits).
C3_InverseRounded ==
    InverseCase =>
        /\ rate_info.provenance = "inverse"
        /\ rate_info.baseUsed = to_cur
        /\ rate_info.asOf = store[to_cur].asOf
        /\ RoundedQuotient(rate_info.rate, DecOne, RateAt(to_cur, from_cur))

\* the cross strategy fell through on rates[from] == 0 and inverse answered
\* with a rounded reciprocal
C3_Witness ==
    /\ InverseCase
    /\ CrossData
    /\ rate_info.provenance = "inverse"
    /\ ~ExactQuotient(rate_info.rate, DecOne, RateAt(to_cur, from_cur))

ConvertedFields ==
    {"from", "to", "amount", "rate", "result", "asOf", "provenance", "baseUsed"}

\* C4: a validated request with from # to over a table with no direct
\* entry, no canonical-base item holding both codes and no inverse entry
\* ends in the 404 response with exactly an error and a hint, compute_rate
\* having returned None; and a response carries the rate and result fields
\* all together or not at all.
C4_Unavailable ==
    Returned =>
        /\ (~DirectData /\ ~CrossData /\ ~InverseData) =>
              /\ rate_info = None
              /\ raised = ""
              /\ response.statusCode = 404
              /\ DOMAIN response.body = {"error", "hint"}
        /\ response.statusCode = 200 => DOMAIN response.body = ConvertedFields
        /\ response.statusCode = 404 => rate_info = None

C4_Witness ==
    /\ Returned
    /\ ~DirectData /\ ~CrossData /\ ~InverseData
    /\ response.statusCode = 404

\* C5: every result compute_rate returns carries a rate > 0, whatever the
\* items hold.
C5_PositiveRate ==
    (Returned /\ rate_info # None) =>
        /\ rate_info.rate.kind = "finite"
        /\ rate_info.rate.sign = 0
        /\ ~IsZero(rate_info.rate)

\* C10 as stated: a request performs at most two store reads.
C10_TwoReads == reads <= 2

\* C10 amended: a request performs at most three store reads, one get_item
\* per strategy, the path that ends in Unavailable performing all three.
C10_ThreeReads ==
    /\ reads <= 3
    /\ (Returned /\ rate_info = None) => reads = 3

C10_Witness == Returned /\ reads = 3 /\ response.statusCode = 404


RawFrom == GetOrEmpty(event, "from")

RawTo == GetOrEmpty(event, "to")

MissingParams == Len(RawFrom) = 0 \/ Len(RawTo) = 0 \/ "amount" \notin DOMAIN event

BadCode == ~MissingParams /\ (Len(RawFrom) # 3 \/ Len(RawTo) # 3)

WellFormedCodes == ~MissingParams /\ ~BadCode

UnparsableAmounts == {<<>>, <<"a", "b", "c">>}

NegativeAmounts == {<<"-", "1">>, <<"-", "I", "n", "f", "i", "n", "i", "t", "y">>}

AcceptedAmounts ==
    {<<"0">>, <<"2", ".", "5">>, <<"0", ".", "0", "0", "0", "0", "5">>}

\* the 400 response with this message, no store read made
Rejected(message) ==
    /\ response = _json(400, [error |-> message])
    /\ raised = ""
    /\ reads = 0
    /\ rate_info = None

\* C6: validation errors are decided before any store access and in a fixed
\* order: an empty from, an empty to or an absent amount is rejected as
\* missing_params; otherwise a code whose length is not 3 as
\* bad_currency_code; otherwise an unparsable amount as bad_amount and a
\* parsed negative amount as negative_amount, zero being accepted; every
\* rejection is a 400 response made without a store read.
C6_ValidationOrder ==
    pc = "done" =>
        /\ MissingParams => Rejected(MISSING_PARAMS)
        /\ BadCode => Rejected(BAD_CURRENCY_CODE)
        /\ (WellFormedCodes /\ event["amount"] \in UnparsableAmounts)
              => Rejected(BAD_AMOUNT)
        /\ (WellFormedCodes /\ event["amount"] \in NegativeAmounts)
              => Rejected(NEGATIVE_AMOUNT)
        /\ (WellFormedCodes /\ event["amount"] \in AcceptedAmounts)
              => response.statusCode \in {200, 404}
        /\ response.statusCode = 400 =>
              /\ reads = 0
              /\ response.body.error \in
                    {MISSING_PARAMS, BAD_CURRENCY_CODE, BAD_AMOUNT, NEGATIVE_AMOUNT}

\* a bad code and a negative amount together: the code is reported
C6_Witness ==
    /\ pc = "done"
    /\ BadCode
    /\ event["amount"] \in NegativeAmounts
    /\ response.statusCode = 400
    /\ response.body.error = BAD_CURRENCY_CODE

\* C7: for every valid 3-letter code with from == to after upper-casing and
\* every non-negative amount a, the response is 200 with rate 1, result a
\* rounded to 4 places, provenance identity and asOf absent, made without a
\* store read.
C7_Identity ==
    (pc = "done" /\ Len(from_cur) = 3 /\ from_cur = to_cur
        /\ amount.kind = "finite") =>
        /\ reads = 0
        /\ raised = ""
        /\ response.statusCode = 200
        /\ response.body.rate = DecOne
        /\ response.body.provenance = "identity"
        /\ response.body.asOf = 0
        /\ response.body.result.kind = "finite"
        /\ ExactQuotient(response.body.result, Quantize(amount), DecOne)

\* C8 as stated: a failed get_item is treated like a missing item, so a
\* request in which one failed still ends in success or in Unavailable.
C8_FaultAsAbsent ==
    (pc = "done" /\ faults > 0) =>
        /\ raised = ""
        /\ response.statusCode \in {200, 404}

\* C8 amended: a failed get_item is not treated like a missing item: its
\* exception ends the invocation at once, with no response, no result of
\* compute_rate and no later strategy run; a request in which no read
\* failed ends in a 200, 400 or 404 response or in the InvalidOperation of a
\* quantize.
C8_FaultPropagates ==
    /\ faults > 0 =>
          /\ pc = "done"
          /\ faults = 1
          /\ raised = "ClientError"
          /\ response = NoResponse
          /\ rate_info = None
    /\ (pc = "done" /\ faults = 0) =>
          \/ raised = "" /\ response.statusCode \in {200, 400, 404}
          \/ raised = "InvalidOperation" /\ response = NoResponse

\* the cross read failed after the direct strategy found nothing
C8_Witness == faults = 1 /\ reads = 2 /\ raised = "ClientError" /\ pc = "done"

\* compute_rate(f, t) run against the single table state tbl
ResolveOn(tbl, f, t) ==
    IF Direct(GetItem(tbl, f), f, t) # None
    THEN Direct(GetItem(tbl, f), f, t)
    ELSE IF Cross(GetItem(tbl, CANONICAL_BASE), f, t) # None
    THEN Cross(GetItem(tbl, CANONICAL_BASE), f, t)
    ELSE Inverse(GetItem(tbl, t), f, t)

\* compute_rate(f, t) with each strategy reading its own table state
ResolveAcross(t1, t2, t3, f, t) ==
    IF Direct(GetItem(t1, f), f, t) # None
    THEN Direct(GetItem(t1, f), f, t)
    ELSE IF Cross(GetItem(t2, CANONICAL_BASE), f, t) # None
    THEN Cross(GetItem(t2, CANONICAL_BASE), f, t)
    ELSE Inverse(GetItem(t3, t), f, t)

Outcome(ri) == <<ri.provenance, ri.baseUsed, ri.rate>>

\* C9 as stated: also when rates are inserted between the request's reads,
\* the result of compute_rate (provenance, baseUsed, rate, or None) is what
\* resolution returns on some single table state that existed between the
\* request's start and its response.
C9_SomeSnapshot ==
    Returned =>
        \E i \in 1..Len(hist) :
            Outcome(rate_info) = Outcome(ResolveOn(hist[i], from_cur, to_cur))

\* C9 amended: the result of compute_rate is what resolution returns when
\* each strategy reads the table as it is at its own get_item, the three
\* reads in order; it equals resolution on a single table state when no
\* insert changed the table during the request, and need not otherwise.
C9_PerReadSnapshots ==
    Returned =>
        /\ \E i \in 1..Len(hist) : \E j \in i..Len(hist) : \E k \in j..Len(hist) :
              rate_info = ResolveAcross(hist[i], hist[j], hist[k], from_cur, to_cur)
        /\ Len(hist) = 1 => rate_info = ResolveOn(hist[1], from_cur, to_cur)

\* inverse is returned though no table state of the request resolves so
C9_Witness ==
    /\ Returned
    /\ Len(hist) = 3
    /\ rate_info.provenance = "inverse"
    /\ \A i \in 1..Len(hist) :
          ResolveOn(hist[i], from_cur, to_cur).provenance # "inverse"

==========================================================================
